---- MODULE Spec2Model ----
(***************************************************************************)
(* Model of the llm-report proxy worker (src/src/index.ts) and its library *)
(* (src/unnamed/part_000): the fetch handler, handleCaching, the two       *)
(* persistence writes, the background tasks handed to ctx.waitUntil, the   *)
(* capture of streamed completions and the token count.                    *)
(*   Spec        several requests handled concurrently, sharing one cache  *)
(*               and one Request table                                     *)
(*   SpecSolo    one request, with any event stream cut into chunks in     *)
(*               any way, and the caller reading the response              *)
(*   SpecTokens  calls of numTokensFromMessages                            *)
(***************************************************************************)
EXTENDS Integers, Sequences, FiniteSets, TLC

\* ------------------------------------------------------------------ bounds
\* Number of requests the worker handles (concurrently) in one run.
NReq == 2
\* Number of transport chunks a body is delivered in to reader.read().
NChunks == 1

Reqs == 1..NReq
\* gen_random_uuid(): a fresh id per INSERT; the model names the id generated
\* for request r's INSERT by r.
gen_random_uuid(r) == r
Ids == {gen_random_uuid(r) : r \in Reqs}

\* ------------------------------------------------------------ input domain
\* Values of the X-Api-Key header: absent, a key of a known user, a key of
\* no user.
NoHeader == "<absent>"
KeyHeaders == {NoHeader, "Bearer k-alice", "Bearer k-nobody"}

\* Request paths: the chat-completions endpoint.
ChatPath == "/v1/chat/completions"
Paths == {ChatPath}
\* The legacy completions endpoint, and an endpoint without accounting.
CompletionsPath == "/v1/completions"
EmbeddingsPath == "/v1/embeddings"

\* Raw request body texts.
BadJson == "{oops"
PlainBody == "{model:gpt-4,messages:[m]}"
StreamBody == "{model:gpt-4,messages:[m],stream:true}"
LegacyBody == "{model:gpt-3.5-turbo-0301,messages:[m]}"
NamedBody == "{model:gpt-3.5-turbo-0301,messages:[m,{name:bob}]}"
OtherModelBody == "{model:text-davinci-003,messages:[m]}"
\* Bodies whose stream field is the boolean false, and the string "true".
FalseFlagBody == "{model:gpt-4,messages:[m],stream:false}"
StringFlagBody == "{model:gpt-4,messages:[m],stream:\"true\"}"
\* A body of the legacy completions endpoint.
PromptBody == "{model:text-davinci-003,prompt:hi}"
\* A request of another method carries no body.
NoBody == ""

\* Model identifiers, written as the pieces String.includes can find in them.
Gpt4 == <<"gpt-4">>
Gpt35Turbo0301 == <<"gpt-3.5-turbo", "-0301">>
Gpt35Turbo0613 == <<"gpt-3.5-turbo", "-0613">>
Gpt40613 == <<"gpt-4", "-0613">>
TextDavinci003 == <<"text-davinci-003">>

\* The other values of an inbound request: the query string of its URL, its
\* Authorization header and the names of the headers it carries besides
\* Content-Type, Authorization and X-Api-Key.
Queries == {"", "?v=1"}
Authorizations == {NoHeader, "Bearer sk-1"}
OtherHeaders == {{}, {"Cookie", "User-Agent"}}

\* The inbound requests of the model.  A request that gets as far as the
\* provisional INSERT is a POST of a known user with a parseable body; the
\* requests the handler turns away before that differ in method, key header
\* and body.
Inbound ==
  [method : {"POST"}, header : {"Bearer k-alice"}, path : Paths,
   text : {PlainBody, StreamBody},
   query : {""}, authorization : {"Bearer sk-1"}, others : {{}}]
  \cup [method : {"GET"}, header : KeyHeaders, path : {ChatPath}, text : {NoBody},
        query : {""}, authorization : {"Bearer sk-1"}, others : {{}}]
  \cup [method : {"POST"}, header : {NoHeader, "Bearer k-nobody"},
        path : {ChatPath}, text : {BadJson, PlainBody},
        query : {""}, authorization : {"Bearer sk-1"}, others : {{}}]
  \cup [method : {"POST"}, header : {"Bearer k-alice"}, path : {ChatPath},
        text : {BadJson},
        query : {""}, authorization : {"Bearer sk-1"}, others : {{}}]

\* The inbound requests of a run that follows one request: requests of a
\* known user that differ in body (model, messages, stream flag), in query
\* string, in Authorization header and in the other headers they carry.
InboundSolo ==
  [method : {"POST"}, header : {"Bearer k-alice"}, path : {ChatPath},
   text : {StreamBody},
   query : {""}, authorization : {"Bearer sk-1"}, others : {{}}]
  \cup [method : {"POST"}, header : {"Bearer k-alice"}, path : {ChatPath},
        text : {PlainBody, LegacyBody, NamedBody, OtherModelBody,
                FalseFlagBody, StringFlagBody},
        query : {""}, authorization : {"Bearer sk-1"}, others : {{}}]
  \cup [method : {"POST"}, header : {"Bearer k-alice"}, path : {ChatPath},
        text : {PlainBody},
        query : Queries, authorization : Authorizations, others : OtherHeaders]

\* One request to any of the endpoints, with or without a query string,
\* buffered or streamed.
InboundUrls ==
  [method : {"POST"}, header : {"Bearer k-alice"},
   path : {ChatPath, EmbeddingsPath}, text : {PlainBody, StreamBody},
   query : Queries, authorization : {"Bearer sk-1"}, others : {{}}]
  \cup [method : {"POST"}, header : {"Bearer k-alice"},
        path : {CompletionsPath, EmbeddingsPath}, text : {PromptBody},
        query : Queries, authorization : {"Bearer sk-1"}, others : {{}}]

\* JSON.parse of a request body text: a parsed value, or a SyntaxError.
JSONParse(text) ==
  CASE text = PlainBody  -> [type |-> "object", stream |-> "absent", src |-> text,
                             model |-> Gpt4,
                             messages |-> <<[role |-> "user", content |-> "hi"]>>]
    [] text = StreamBody -> [type |-> "object", stream |-> "true", src |-> text,
                             model |-> Gpt4,
                             messages |-> <<[role |-> "user", content |-> "hi"]>>]
    [] text = LegacyBody -> [type |-> "object", stream |-> "absent", src |-> text,
                             model |-> Gpt35Turbo0301,
                             messages |-> <<[role |-> "user", content |-> "hi"]>>]
    [] text = NamedBody  -> [type |-> "object", stream |-> "absent", src |-> text,
                             model |-> Gpt35Turbo0301,
                             messages |-> <<[role |-> "user", content |-> "hi"],
                                            [role |-> "user", content |-> "hello",
                                             name |-> "bob"]>>]
    [] text = OtherModelBody ->
                            [type |-> "object", stream |-> "absent", src |-> text,
                             model |-> TextDavinci003,
                             messages |-> <<[role |-> "user", content |-> "hi"]>>]
    [] text = FalseFlagBody ->
                            [type |-> "object", stream |-> "false", src |-> text,
                             model |-> Gpt4,
                             messages |-> <<[role |-> "user", content |-> "hi"]>>]
    [] text = StringFlagBody ->
                            [type |-> "object", stream |-> "string:true",
                             src |-> text, model |-> Gpt4,
                             messages |-> <<[role |-> "user", content |-> "hi"]>>]
    [] text = PromptBody ->
                            [type |-> "object", stream |-> "absent", src |-> text,
                             model |-> TextDavinci003, messages |-> <<>>,
                             prompt |-> "hi"]
    [] OTHER             -> [type |-> "SyntaxError"]

EmptyObject ==
  [type |-> "object", stream |-> "absent", src |-> "{}", model |-> <<>>,
   messages |-> <<>>]

\* parseRequest: the body is parsed only for POST; any other method gets {}.
parseRequest(method, text) ==
  IF method = "POST" THEN JSONParse(text) ELSE EmptyObject

\* getUrl: upstream host + original path + original query string.
getUrl(path, query) == <<"https://api.openai.com", path, query>>

\* "https://api.openai.com/v1/chat/completions"
ChatUrl == getUrl(ChatPath, "")
\* "https://api.openai.com/v1/completions"
CompletionsUrl == getUrl(CompletionsPath, "")

\* headers.get("X-Api-Key")?.replace("Bearer ", ""); "" stands for undefined.
KeyOf(header) ==
  CASE header = "Bearer k-alice"  -> "k-alice"
    [] header = "Bearer k-bob"    -> "k-bob"
    [] header = "Bearer k-nobody" -> "k-nobody"
    [] OTHER                      -> ""

\* The hash function, injective on the strings it is given.
sha256(message) == <<"sha256", message>>

\* The identity store: hashed key -> user, read-only.
NoUser == "<null>"
getUser(apiKey) ==
  IF sha256(apiKey) = sha256("k-alice") THEN "alice"
  ELSE IF sha256(apiKey) = sha256("k-bob") THEN "bob"
  ELSE NoUser

\* String(body): what TextEncoder.encode makes of the value it is handed.
\* handleCaching is handed the parsed body, so every object reads the same.
StringOf(value) ==
  IF value.type = "object" THEN "[object Object]" ELSE value.type

\* generateCacheKey: the request URL with the hash of the body appended to
\* its path; the query string stays in the URL.
generateCacheKey(path, query, body) == <<path, sha256(StringOf(body)), query>>

CacheKeys ==
  {generateCacheKey(in.path, in.query, parseRequest(in.method, in.text)) :
     in \in {i \in Inbound \cup InboundSolo \cup InboundUrls :
               parseRequest(i.method, i.text).type = "object"}}

\* ---------------------------------------------------------------- upstream
\* What the upstream call can do: answer 200, answer an error status, or
\* fail in transport (fetch rejects).
UpstreamOutcomes == {"ok", "error", "throw"}

NoResponse ==
  [status |-> 0, kind |-> "none", origin |-> 0, lines |-> <<>>,
   cacheControl |-> NoHeader]

\* The non-empty lines of an event stream.  A frame is the line
\*   data: {"id": id, "choices": [{"delta": {"content": content}}]}
\* id = NoId: the frame has no id field; delta = FALSE: choices[0] has no
\* delta; content = "": the delta has no content (role and finish frames).
NoId == "<undefined>"
Frame(id, delta, content) ==
  [t |-> "frame", id |-> id, delta |-> delta, content |-> content]
\* data: [DONE], the upstream's terminator, and a line that is no JSON.
DoneLine == [t |-> "done", id |-> NoId, delta |-> FALSE, content |-> ""]
BadLine == [t |-> "bad", id |-> NoId, delta |-> FALSE, content |-> ""]

FrameA == Frame("chatcmpl-1", TRUE, "a")
FrameB == Frame("chatcmpl-2", TRUE, "b")
FrameNoId == Frame(NoId, TRUE, "c")
FrameNoDelta == Frame("chatcmpl-1", FALSE, "")
\* A frame whose delta has no content (the first frame of a completion
\* carries the role only).
FrameNoContent == Frame("chatcmpl-1", TRUE, "")
LineKinds ==
  {FrameA, FrameB, FrameNoId, FrameNoDelta, FrameNoContent, BadLine, DoneLine}

\* Longest event stream of a run that follows one request, in lines.
MaxLines == 2

RECURSIVE SeqsUpTo(_, _)
SeqsUpTo(S, n) ==
  IF n = 0 THEN {<<>>}
  ELSE LET shorter == SeqsUpTo(S, n - 1) IN
         shorter \cup {Append(q, x) : q \in shorter, x \in S}

\* The event streams the upstream may send: every sequence of lines.
Streams == SeqsUpTo(LineKinds, MaxLines)

\* The event stream of the runs with several requests: one frame and the
\* terminator.
\* The lines sent before the transport of an interrupted stream fails.
InterruptedStreams == {<<FrameA>>, <<FrameA, FrameB>>}

PlainStream == <<FrameA, DoneLine>>

\* The upstream's answer to request r.  Body kinds:
\*   "json"    a JSON document; on the chat path it has id and
\*             choices[0].message.content = "hello"
\*   "sse"     an event stream  data: {id, choices[0].delta.content}\n\n ...
\*             data: [DONE]\n\n  (chat path, stream: true)
\*   "errjson" the upstream's error document {"error": {...}}, which has no
\*             choices; like every JSON document of the upstream it is
\*             pretty-printed over several lines
\* origin names the call that produced the bytes (two calls never produce
\* the same completion).
\*   "text"    an error page that is no JSON (outcome "errtext": a gateway
\*             in front of the upstream answers 502)
\*             With outcome "stream" the upstream sends an event stream
\*             whatever the stream field of the body is.
\*   "cut"     a body whose transport fails after the lines were sent
\*             (outcome "aborted"): reading past them rejects
\* lines: the lines of the event stream, <<>> for the documents.
\* cacheControl: the Cache-Control value the upstream sent, NoHeader for none.
UpstreamResponse(r, path, body, outcome, lines) ==
  IF outcome = "ok"
  THEN IF path = ChatPath /\ body.stream = "true"
       THEN [status |-> 200, kind |-> "sse", origin |-> r, lines |-> lines,
             cacheControl |-> "no-cache, must-revalidate"]
       ELSE [status |-> 200, kind |-> "json", origin |-> r, lines |-> <<>>,
             cacheControl |-> "no-cache, must-revalidate"]
  ELSE IF outcome = "stream"
  THEN [status |-> 200, kind |-> "sse", origin |-> r, lines |-> lines,
        cacheControl |-> "no-cache, must-revalidate"]
  ELSE IF outcome = "aborted"
  THEN [status |-> 200, kind |-> "cut", origin |-> r, lines |-> lines,
        cacheControl |-> "no-cache, must-revalidate"]
  ELSE IF outcome = "errtext"
  THEN [status |-> 502, kind |-> "text", origin |-> r, lines |-> <<>>,
        cacheControl |-> "no-store"]
  ELSE [status |-> 429, kind |-> "errjson", origin |-> r, lines |-> <<>>,
        cacheControl |-> NoHeader]

\* ------------------------------------------------------------------- state
VARIABLES
  pc,             \* position of each request's fetch handler
  req,            \* the inbound request: method, X-Api-Key header, path, body text
  uuid,           \* fetch: let uuid = ""  (0), then the id the INSERT returned
  response,       \* handleCaching's result: response
  cached,         \* handleCaching's result: cached
  out,            \* what the caller of fetch got: a response or an exception
  nread,          \* chunks the accounting reader has appended to responseData
  put,            \* the background cache.put of the request
  save,           \* the saveRequestToDb task of the request
  cache,          \* caches.default: cache key -> stored response
  db,             \* the Request table: id -> row
  lookup,         \* history: what cache.match returned to the request
  upstreamCalls,  \* history: upstream fetches the request issued
  updates,        \* history: WHERE ids of the UPDATEs the request issued
  inserts,        \* history: INSERTs the request issued
  afterReturns,   \* history: on arrival every earlier handler had returned
  chunks,         \* the transport chunks the response body arrives in
  responseData,   \* fetch: let responseData = "", then the decoded chunks
  ncaller,        \* chunks the caller has read from the returned response
  delivered,      \* history: the bytes the caller has read
  upstreamReq,    \* history: the request handleCaching sent upstream
  tk,             \* a call of numTokensFromMessages and what it returned
  rd              \* the reader of the handler that parses every chunk

streamVars == <<chunks, responseData, ncaller, delivered>>

vars == <<pc, req, uuid, response, cached, out, nread, put, save, cache, db,
          lookup, upstreamCalls, updates, inserts, afterReturns, streamVars,
          upstreamReq, tk, rd>>

NoRequest ==
  [method |-> "", header |-> "", path |-> "", text |-> "", query |-> "",
   authorization |-> "", others |-> {}]
NoOut == [kind |-> "none", status |-> 0, why |-> "", body |-> NoResponse]
NoRow == [by |-> 0]

\* No request has been sent upstream.
NoUpstreamRequest ==
  [method |-> "", url |-> <<>>, body |-> "", headers |-> {}]

\* No call of numTokensFromMessages is under way.
NoCall == [at |-> "none", messages |-> <<>>, model |-> <<>>, given |-> <<>>,
           depth |-> 0, result |-> 0]

\* The completion text the provisional row carries.
Sentinel == "An Error Occured while trying to store the AI's response"

InitHandler ==
  /\ pc = [r \in Reqs |-> "idle"]
  /\ req = [r \in Reqs |-> NoRequest]
  /\ uuid = [r \in Reqs |-> 0]
  /\ response = [r \in Reqs |-> NoResponse]
  /\ cached = [r \in Reqs |-> FALSE]
  /\ out = [r \in Reqs |-> NoOut]
  /\ nread = [r \in Reqs |-> 0]
  /\ put = [r \in Reqs |-> "none"]
  /\ save = [r \in Reqs |-> "none"]
  /\ cache = [k \in CacheKeys |-> NoResponse]
  /\ db = [i \in Ids |-> NoRow]
  /\ lookup = [r \in Reqs |-> "none"]
  /\ upstreamCalls = [r \in Reqs |-> 0]
  /\ updates = [r \in Reqs |-> <<>>]
  /\ inserts = [r \in Reqs |-> 0]
  /\ afterReturns = [r \in Reqs |-> FALSE]
  /\ chunks = [r \in Reqs |-> <<>>]
  /\ responseData = [r \in Reqs |-> <<>>]
  /\ ncaller = [r \in Reqs |-> 0]
  /\ delivered = [r \in Reqs |-> <<>>]
  /\ upstreamReq = [r \in Reqs |-> NoUpstreamRequest]

\* The reader of the handler that parses every chunk: the chunks of the
\* body, the index of the chunk the next read gets, the reader.read() calls
\* not resolved yet, the variables count, responseData and rawText, the
\* process calls that threw, the calls of saveRequestToDb and the
\* streamed_data of the last one.
NoReader ==
  [at |-> "none", chunks |-> <<>>, next |-> 1, reads |-> 0, count |-> 0,
   responseData |-> <<>>, rawText |-> "", thrown |-> 0,
   saves |-> 0, streamed_data |-> <<>>]

Init == InitHandler /\ tk = NoCall /\ rd = NoReader

Body(r) == parseRequest(req[r].method, req[r].text)
Url(r) == getUrl(req[r].path, req[r].query)

\* The handler's promise has settled: the caller has a response or an error.
Returned(r) == out[r].kind # "none"

Reply(status, why) ==
  [kind |-> "response", status |-> status, why |-> why, body |-> NoResponse]
Thrown(why) ==
  [kind |-> "exception", status |-> 0, why |-> why, body |-> NoResponse]

\* ------------------------------------------------------ fetch: the handler
\* The request arrives; parseRequest runs first and JSON.parse may throw.
\* Requests are numbered in their order of arrival.
AfterParse(body) == IF body.type = "SyntaxError" THEN "done" ELSE "auth"

\* Requests of two callers for the same path and body, which differ in
\* their headers and in the query string.
InboundPair ==
  [method : {"POST"}, header : {"Bearer k-alice", "Bearer k-bob"},
   path : {ChatPath}, text : {PlainBody},
   query : Queries, authorization : Authorizations, others : OtherHeaders]

Receive(r, in) ==
  /\ pc[r] = "idle"
  /\ IF r = 1 THEN TRUE ELSE pc[r - 1] # "idle"
  /\ req' = [req EXCEPT ![r] = in]
  /\ afterReturns' = [afterReturns EXCEPT ![r] = \A q \in 1..(r - 1) : Returned(q)]
  /\ pc' = [pc EXCEPT ![r] = AfterParse(parseRequest(in.method, in.text))]
  /\ out' = [out EXCEPT ![r] =
               IF AfterParse(parseRequest(in.method, in.text)) = "done"
               THEN Thrown("parseRequest") ELSE NoOut]
  /\ UNCHANGED <<uuid, response, cached, nread, put, save, cache, db,
                 lookup, upstreamCalls, updates, inserts>>
  /\ UNCHANGED <<streamVars, upstreamReq, tk, rd>>

\* Variant: the handler has no method check.
GateAnyMethod(header, method) ==
  IF KeyOf(header) = "" THEN "missing-key"
  ELSE IF getUser(KeyOf(header)) = NoUser THEN "user-not-found"
  ELSE ""

\* The key check, getUser and the method check, in the handler's order:
\* the reply that ends the request, or "" when the request goes on.
Gate(header, method) ==
  IF KeyOf(header) = "" THEN "missing-key"
  ELSE IF getUser(KeyOf(header)) = NoUser THEN "user-not-found"
  ELSE IF method # "POST" THEN "method"
  ELSE ""

GateStatus(why) == IF why = "method" THEN 405 ELSE 401

\* Variant: the provisional INSERT is left out of the handler's path.
AfterGateNoInsert(why) == IF why = "" THEN "handleCaching" ELSE "done"

\* Where the handler goes after the gate: to the provisional INSERT.
AfterGate(why) == IF why = "" THEN "saveInitial" ELSE "done"

Authenticate(r) ==
  /\ pc[r] = "auth"
  /\ LET why == Gate(req[r].header, req[r].method) IN
       /\ pc' = [pc EXCEPT ![r] = AfterGate(why)]
       /\ out' = [out EXCEPT ![r] =
                    IF why = "" THEN NoOut ELSE Reply(GateStatus(why), why)]
  /\ UNCHANGED <<req, uuid, response, cached, nread, put, save, cache, db,
                 lookup, upstreamCalls, updates, inserts, afterReturns>>
  /\ UNCHANGED <<streamVars, upstreamReq, tk, rd>>

\* The row saveInitialRequestToDb inserts; by records the inserting request.
InitialRow(r) ==
  [by |-> r, url |-> Url(r), method |-> req[r].method, status |-> 200,
   request_body |-> Body(r).src, cached |-> FALSE, streamed |-> FALSE,
   openai_id |-> "", prompt_tokens |-> 0, completion_tokens |-> 0,
   completion |-> Sentinel, userId |-> getUser(KeyOf(req[r].header))]

\* Variant: the catch block logs the error and does not return.
AfterInsertNoReturn(ok) == "handleCaching"

\* Where the handler goes after the INSERT: on, or out of the catch block.
AfterInsert(ok) == IF ok THEN "handleCaching" ELSE "done"

saveInitialRequestToDb(r, ok) ==
  /\ pc[r] = "saveInitial"
  /\ pc' = [pc EXCEPT ![r] = AfterInsert(ok)]
  /\ inserts' = [inserts EXCEPT ![r] = @ + 1]
  /\ IF ok
     THEN /\ db' = [db EXCEPT ![gen_random_uuid(r)] = InitialRow(r)]
          /\ uuid' = [uuid EXCEPT ![r] = gen_random_uuid(r)]
          /\ out' = out
     ELSE /\ out' = [out EXCEPT ![r] = Reply(500, "insert")]
          /\ UNCHANGED <<db, uuid>>
  /\ UNCHANGED <<req, response, cached, nread, put, save, cache, lookup,
                 upstreamCalls, updates, afterReturns>>
  /\ UNCHANGED <<streamVars, upstreamReq, tk, rd>>

\* ----------------------------------------------------------- handleCaching
Key(r) == generateCacheKey(req[r].path, req[r].query, Body(r))

\* Variant: the upstream is called whatever the lookup found.
NeedsFetchAlways(found) == TRUE

\* if (!response): the lookup found nothing and the upstream is called.
NeedsFetch(found) == found = NoResponse

\* const cacheKey = await generateCacheKey(...); await cache.match(cacheKey)
CacheMatch(r) ==
  /\ pc[r] = "handleCaching"
  /\ lookup' = [lookup EXCEPT ![r] =
                  IF cache[Key(r)] = NoResponse THEN "miss" ELSE "hit"]
  /\ IF NeedsFetch(cache[Key(r)])
     THEN /\ pc' = [pc EXCEPT ![r] = "fetch"]
          /\ UNCHANGED <<response, cached>>
     ELSE /\ pc' = [pc EXCEPT ![r] = "respond"]
          /\ response' = [response EXCEPT ![r] = cache[Key(r)]]
          /\ cached' = [cached EXCEPT ![r] = TRUE]
  /\ UNCHANGED <<req, uuid, out, nread, put, save, cache, db,
                 upstreamCalls, updates, inserts, afterReturns>>
  /\ UNCHANGED <<streamVars, upstreamReq, tk, rd>>

\* headers.get(name): the value, or null for a header the request lacks;
\* Headers.set writes null as the string "null".
HeaderValue(value) == IF value = NoHeader THEN "null" ELSE value

\* Variant: the inbound headers are forwarded as they came.
inboundHeaders(in) ==
  {<<"Content-Type", "application/json">>,
   <<"Authorization", HeaderValue(in.authorization)>>,
   <<"X-Api-Key", HeaderValue(in.header)>>}
  \cup {<<name, "*">> : name \in in.others}

\* const newRequestHeaders = new Headers() and its three set calls.
newRequestHeaders(in) ==
  {<<"Content-Type", "application/json">>,
   <<"Authorization", HeaderValue(in.authorization)>>,
   <<"X-Api-Key", HeaderValue(in.header)>>}

\* fetch(url, {body: request.body, method: request.method, headers}):
\* request is the clone taken before the body was read.
UpstreamRequest(in) ==
  [method |-> in.method, url |-> getUrl(in.path, in.query), body |-> in.text,
   headers |-> newRequestHeaders(in)]

\* await fetch(url, ...): a rejection is not caught in handleCaching nor in
\* fetch, so it leaves the handler.  Otherwise the response is wrapped,
\* cache.put is handed to ctx.waitUntil and { response, cached: false }
\* is returned.  lines: the event stream the upstream sends.
\* The lifetime of a cache entry, in seconds: 30 days.
CACHE_AGE == 60 * 60 * 24 * 30

\* The response keeps the Cache-Control value the upstream sent.
upstreamCacheControl(resp) == resp

\* response.headers.set("cache-control", `public, max-age=${CACHE_AGE}`) on
\* the response that wraps the upstream's status, headers and body.
setCacheControl(resp) ==
  [resp EXCEPT !.cacheControl = "public, max-age=" \o ToString(CACHE_AGE)]

UpstreamFetch(r, o, lines) ==
  /\ pc[r] = "fetch"
  /\ upstreamCalls' = [upstreamCalls EXCEPT ![r] = @ + 1]
  /\ upstreamReq' = [upstreamReq EXCEPT ![r] = UpstreamRequest(req[r])]
  /\ IF o = "throw"
     THEN /\ pc' = [pc EXCEPT ![r] = "done"]
          /\ out' = [out EXCEPT ![r] = Thrown("fetch")]
          /\ UNCHANGED <<response, put>>
     ELSE /\ pc' = [pc EXCEPT ![r] = "respond"]
          /\ response' = [response EXCEPT ![r] =
                            setCacheControl(
                              UpstreamResponse(r, req[r].path, Body(r), o, lines))]
          /\ put' = [put EXCEPT ![r] = "pending"]
          /\ out' = out
  /\ UNCHANGED <<req, uuid, cached, nread, save, cache, db, lookup,
                 updates, inserts, afterReturns>>
  /\ UNCHANGED <<streamVars, tk, rd>>

\* The background task ctx.waitUntil(cache.put(cacheKey, response.clone())).
CachePut(r) ==
  /\ put[r] = "pending"
  /\ IF response[r].kind = "cut"
     THEN cache' = cache /\ put' = [put EXCEPT ![r] = "failed"]
     ELSE /\ cache' = [cache EXCEPT ![Key(r)] = response[r]]
          /\ put' = [put EXCEPT ![r] = "done"]
  /\ UNCHANGED <<pc, req, uuid, response, cached, out, nread, save, db,
                 lookup, upstreamCalls, updates, inserts, afterReturns>>
  /\ UNCHANGED <<streamVars, upstreamReq, tk, rd>>

\* ------------------------------------------- fetch: the two response modes
\* if (body.stream): every truthy value takes the branch.
truthy(body) == body.stream \in {"true", "string:true"}

\* body.stream === true
Streaming(body) == body.stream = "true"

\* await c.json() succeeds on a JSON document and throws on an event stream.
JsonOk(resp) == resp.kind \in {"json", "errjson"}

Delivered(resp) ==
  [kind |-> "response", status |-> resp.status, why |-> "", body |-> resp]

\* ------------------------------------------------- bodies as byte streams
\* The bytes of a body, in units of half a line: the first half of a line,
\* and its second half with the "\n\n" that ends it.  A chunk boundary can
\* fall between any two units, so also in the middle of a frame.
Unit(half, line) == [half |-> half, line |-> line]

RECURSIVE TextOf(_)
TextOf(lines) ==
  IF lines = <<>> THEN <<>>
  ELSE <<Unit(1, Head(lines)), Unit(2, Head(lines))>> \o TextOf(Tail(lines))

\* The JSON document of a buffered answer, as one piece of text: it has an
\* id when it is a completion and none when it is the error document.
DocId(resp) ==
  IF resp.kind = "json" THEN "doc-" \o ToString(resp.origin) ELSE NoId
DocLine(resp) ==
  [t |-> resp.kind, id |-> DocId(resp), delta |-> FALSE, content |-> ""]

\* The bytes of a response body.
BodyText(resp) ==
  IF resp.kind \in {"sse", "cut"} THEN TextOf(resp.lines) ELSE TextOf(<<DocLine(resp)>>)

\* The chunk that ends at the first cut point after from.
NextEnd(ends, from) ==
  CHOOSE e \in ends : e > from /\ \A f \in ends : f > from => e <= f

\* The chunks a text arrives in when the transport cuts it at the points
\* cuts (after the i-th unit, for i in cuts).
RECURSIVE ChunksFrom(_, _, _)
ChunksFrom(text, ends, from) ==
  IF from >= Len(text) THEN <<>>
  ELSE LET e == NextEnd(ends, from) IN
         <<SubSeq(text, from + 1, e)>> \o ChunksFrom(text, ends, e)

Chunked(text, cuts) == ChunksFrom(text, cuts \cup {Len(text)}, 0)

\* Every way of cutting a text of n units into chunks.
AllCuts(n) == SUBSET (1..(n - 1))

\* The cut of a text of n units into NChunks chunks of equal length (fewer
\* when the text is shorter).
EvenCuts(n) ==
  LET size == (n + NChunks - 1) \div NChunks IN
    {i * size : i \in 1..(NChunks - 1)} \cap 1..(n - 1)

\* Variant: the reader is attached to the response itself, so the caller and
\* the reader share one stream and a chunk goes to whichever reads first.
sharedBody(own, other) == own + other + 1

\* response.clone(): the response and its clone each deliver every chunk;
\* the index of the chunk a branch reads next, after it read own chunks and
\* the other branch read other chunks.
clone(own, other) == own + 1

\* The task is awaited: it has run to its end when the handler goes on.
awaited(task) == "updated"

\* ctx.waitUntil(task): the task is handed to the runtime, which runs it in
\* the background; the handler goes on without its result.
waitUntil(task) == "scheduled"

\* Streaming: the reader is attached to the clone and the response returned.
\* Buffered: the body is parsed, saveRequestToDb is handed to ctx.waitUntil
\* and the response returned; a parse error leaves the handler.
\* cuts: where the transport cuts the body into chunks.
Respond(r, cuts) ==
  /\ pc[r] = "respond"
  /\ cuts \subseteq 1..(Len(BodyText(response[r])) - 1)
  /\ IF Streaming(Body(r))
     THEN /\ pc' = [pc EXCEPT ![r] = "reading"]
          /\ out' = [out EXCEPT ![r] = Delivered(response[r])]
          /\ chunks' = [chunks EXCEPT ![r] = Chunked(BodyText(response[r]), cuts)]
          /\ save' = save
     ELSE IF JsonOk(response[r])
     THEN /\ pc' = [pc EXCEPT ![r] = "done"]
          /\ out' = [out EXCEPT ![r] = Delivered(response[r])]
          /\ chunks' = [chunks EXCEPT ![r] = Chunked(BodyText(response[r]), cuts)]
          /\ save' = [save EXCEPT ![r] = waitUntil("saveRequestToDb")]
     ELSE /\ pc' = [pc EXCEPT ![r] = "done"]
          /\ out' = [out EXCEPT ![r] = Thrown("json")]
          /\ UNCHANGED <<chunks, save>>
  /\ UNCHANGED <<req, uuid, response, cached, nread, put, cache, db,
                 lookup, upstreamCalls, updates, inserts, afterReturns>>
  /\ UNCHANGED <<responseData, ncaller, delivered, upstreamReq, tk, rd>>

\* process({done: false, value}): responseData += decoder.decode(value);
\* read again.
ReadChunk(r) ==
  /\ pc[r] = "reading"
  /\ clone(nread[r], ncaller[r]) <= Len(chunks[r])
  /\ responseData' = [responseData EXCEPT ![r] =
                        @ \o chunks[r][clone(nread[r], ncaller[r])]]
  /\ nread' = [nread EXCEPT ![r] = @ + 1]
  /\ UNCHANGED <<pc, req, uuid, response, cached, out, put, save, cache, db,
                 lookup, upstreamCalls, updates, inserts, afterReturns>>
  /\ UNCHANGED <<chunks, ncaller, delivered, upstreamReq, tk, rd>>

\* The reader has read a chunk before the end of the body: the next
\* read() resolves with done: true at once.
doneEarly(r) == nread[r] >= 1 /\ response[r].kind # "cut"

\* reader.read() resolves with done: true: every chunk of the clone has
\* been read and the body ended normally.
done(r) ==
  /\ clone(nread[r], ncaller[r]) > Len(chunks[r])
  /\ response[r].kind # "cut"

\* process({done: true}): saveRequestToDb is handed to ctx.waitUntil with
\* streamed_data: responseData.
StreamDone(r) ==
  /\ pc[r] = "reading"
  /\ done(r)
  /\ pc' = [pc EXCEPT ![r] = "done"]
  /\ save' = [save EXCEPT ![r] = waitUntil("saveRequestToDb")]
  /\ UNCHANGED <<req, uuid, response, cached, out, nread, put, cache, db,
                 lookup, upstreamCalls, updates, inserts, afterReturns>>
  /\ UNCHANGED <<streamVars, upstreamReq, tk, rd>>

\* reader.read() rejects: the body failed after its last chunk.  The chain
\* reader.read().then(process) has no rejection handler, so process is not
\* called again and nothing is handed to ctx.waitUntil.
StreamError(r) ==
  /\ pc[r] = "reading"
  /\ clone(nread[r], ncaller[r]) > Len(chunks[r])
  /\ response[r].kind = "cut"
  /\ pc' = [pc EXCEPT ![r] = "done"]
  /\ UNCHANGED <<req, uuid, response, cached, out, nread, put, save, cache,
                 db, lookup, upstreamCalls, updates, inserts, afterReturns>>
  /\ UNCHANGED <<streamVars, upstreamReq, tk, rd>>

\* The caller reads the next chunk of the response the handler returned.
CallerRead(r) ==
  /\ out[r].kind = "response" /\ out[r].body # NoResponse
  /\ clone(ncaller[r], nread[r]) <= Len(chunks[r])
  /\ delivered' = [delivered EXCEPT ![r] =
                     @ \o chunks[r][clone(ncaller[r], nread[r])]]
  /\ ncaller' = [ncaller EXCEPT ![r] = @ + 1]
  /\ UNCHANGED <<pc, req, uuid, response, cached, out, nread, put, save, cache,
                 db, lookup, upstreamCalls, updates, inserts, afterReturns>>
  /\ UNCHANGED <<chunks, responseData, upstreamReq, tk, rd>>

\* ---------------------------------------------------------- token counting
\* encode(text).length of the tokenizer library: opaque; a fixed stand-in.
tokenize(text) ==
  CASE text = ""      -> 0
    [] text = "hi"    -> 1
    [] text = "user"  -> 1
    [] text = "hello" -> 1
    [] OTHER          -> 2

getTokenCount(str) == tokenize(str)

\* The models numTokensFromMessages lists by name.
KnownModels ==
  {<<"gpt-3.5-turbo", "-0125">>, <<"gpt-4", "-turbo-2024-04-09">>,
   Gpt35Turbo0613, <<"gpt-3.5-turbo", "-16k-0613">>,
   <<"gpt-4", "-0314">>, <<"gpt-4", "-32k-0314">>,
   Gpt40613, <<"gpt-4", "-32k-0613">>}

\* model: string = "gpt-3.5-turbo-0613"
DefaultModel == Gpt35Turbo0613

\* model.includes(piece)
includes(model, piece) == \E i \in DOMAIN model : model[i] = piece

Counts(perMessage, perName) ==
  [kind |-> "count", tokensPerMessage |-> perMessage,
   tokensPerName |-> perName, model |-> <<>>]
Recurse(model) ==
  [kind |-> "recurse", tokensPerMessage |-> 0, tokensPerName |-> 0,
   model |-> model]
Throw ==
  [kind |-> "throw", tokensPerMessage |-> 0, tokensPerName |-> 0,
   model |-> <<>>]

\* Variant: a model of no known family is counted like gpt-3.5-turbo-0613.
framingGuess(model) ==
  IF model \in KnownModels THEN Counts(3, 1)
  ELSE IF model = Gpt35Turbo0301 THEN Counts(4, -1)
  ELSE IF includes(model, "gpt-3.5-turbo") THEN Recurse(Gpt35Turbo0613)
  ELSE IF includes(model, "gpt-4") THEN Recurse(Gpt40613)
  ELSE Recurse(Gpt35Turbo0613)

\* The if-chain at the head of numTokensFromMessages: the two overheads, or
\* the model the function calls itself with, or the error it throws.
framing(model) ==
  IF model \in KnownModels THEN Counts(3, 1)
  ELSE IF model = Gpt35Turbo0301 THEN Counts(4, -1)
  ELSE IF includes(model, "gpt-3.5-turbo") THEN Recurse(Gpt35Turbo0613)
  ELSE IF includes(model, "gpt-4") THEN Recurse(Gpt40613)
  ELSE Throw

\* Variant: the name overhead is left out.
RECURSIVE FieldTokensNoName(_, _, _)
FieldTokensNoName(message, keys, tokensPerName) ==
  IF keys = {} THEN 0
  ELSE LET k == CHOOSE x \in keys : TRUE IN
         tokenize(message[k]) + FieldTokensNoName(message, keys \ {k}, tokensPerName)

\* for (const [key, value] of Object.entries(message))
RECURSIVE FieldTokens(_, _, _)
FieldTokens(message, keys, tokensPerName) ==
  IF keys = {} THEN 0
  ELSE LET k == CHOOSE x \in keys : TRUE IN
         tokenize(message[k]) + (IF k = "name" THEN tokensPerName ELSE 0)
           + FieldTokens(message, keys \ {k}, tokensPerName)

\* for (const message of messages)
RECURSIVE MessageTokens(_, _, _)
MessageTokens(messages, tokensPerMessage, tokensPerName) ==
  IF messages = <<>> THEN 0
  ELSE tokensPerMessage
         + FieldTokens(Head(messages), DOMAIN Head(messages), tokensPerName)
         + MessageTokens(Tail(messages), tokensPerMessage, tokensPerName)

\* The loop and numTokens += 3 (every reply is primed with assistant).
CountTokens(messages, f) ==
  MessageTokens(messages, f.tokensPerMessage, f.tokensPerName) + 3

\* numTokensFromMessages(messages, model): the count, or the error thrown.
RECURSIVE numTokensFromMessages(_, _)
numTokensFromMessages(messages, model) ==
  LET f == framing(model) IN
    CASE f.kind = "count"   -> [threw |-> FALSE, n |-> CountTokens(messages, f)]
      [] f.kind = "recurse" -> numTokensFromMessages(messages, f.model)
      [] OTHER              -> [threw |-> TRUE, n |-> 0]

\* ------------------------------------------------------------ StreamCapture
\* The lines of a text: a line is there when both its halves are, anything
\* else is a fragment that is no JSON.
RECURSIVE SplitLines(_)
SplitLines(text) ==
  IF text = <<>> THEN <<>>
  ELSE IF /\ Len(text) >= 2
          /\ text[1].half = 1 /\ text[2].half = 2
          /\ text[1].line = text[2].line
       THEN <<text[1].line>> \o SplitLines(SubSeq(text, 3, Len(text)))
       ELSE <<BadLine>> \o SplitLines(Tail(text))

\* JSON.parse(line) returns: the line is a frame or a whole JSON document.
Parses(line) == line.t \in {"frame", "json", "errjson"}

\* The for loop of getCompletionFromStream: JSON.parse throws on a line
\* that is no JSON, parsed.choices[0].delta.content throws on a frame
\* without delta, and the loop does not catch.
RECURSIVE Accumulate(_)
Accumulate(events) ==
  IF events = <<>> THEN [threw |-> FALSE, text |-> ""]
  ELSE IF Head(events).t # "frame" \/ ~Head(events).delta
       THEN [threw |-> TRUE, text |-> ""]
       ELSE LET rest == Accumulate(Tail(events)) IN
              [threw |-> rest.threw,
               text  |-> IF rest.threw THEN "" ELSE Head(events).content \o rest.text]

\* .split("\n").filter((e) => e.length > 0), without the slice.
eventsAll(lines) == lines

\* .split("\n").filter((e) => e.length > 0).slice(0, -1)
events(lines) == SubSeq(lines, 1, Len(lines) - 1)

\* getCompletionFromStream(stream), stream given by its non-empty lines.  A
\* pretty-printed JSON document spans several lines, none of them JSON.
getCompletionFromStream(lines) ==
  IF lines = <<>> THEN [threw |-> FALSE, text |-> ""]
  ELSE IF \E i \in DOMAIN lines : lines[i].t \in {"json", "errjson"}
       THEN [threw |-> TRUE, text |-> ""]
       ELSE Accumulate(events(lines))

\* -------------------------------------------------------- saveRequestToDb
\* streamed_data?.split("\n\n")[0]: the first line, or "" of an empty text.
FirstSegment(lines) == IF lines = <<>> THEN BadLine ELSE lines[1]

\* The url has the path of the target, whatever its query string.
samePath(url, target) == url[2] = target[2]

\* url === "https://api.openai.com/...": the whole url, query string
\* included, is the target.
exactly(url, target) == url = target

\* The statements before the UPDATE.  threw: one of them throws, which
\* rejects the task before the UPDATE is sent.
\*   streamed: JSON.parse of the first segment throws when it is no JSON;
\*   streamed, chat url: getCompletionFromStream throws;
\*   buffered, chat url: data.choices[0] throws when the document has no
\*     choices;
\*   chat url: numTokensFromMessages(body.messages) is called without the
\*     model of the body;
\*   completions url: data?.choices[0].text throws when the document has no
\*     choices; the tokenizer is handed undefined, and throws, when there is
\*     no data (streamed) or the body has no prompt;
\*   any other url: no statement, completion and counts keep "" and 0.
Accounting(url, body, streamed, resp, streamed_data) ==
  LET lines == SplitLines(streamed_data)
      first == FirstSegment(lines)
      fromStream == getCompletionFromStream(lines)
      chat == exactly(url, ChatUrl)
      legacy == ~chat /\ exactly(url, CompletionsUrl)
      prompt == numTokensFromMessages(body.messages, DefaultModel)
      threw == \/ streamed /\ ~Parses(first)
               \/ /\ chat
                  /\ \/ streamed /\ fromStream.threw
                     \/ ~streamed /\ resp.kind # "json"
                     \/ prompt.threw
               \/ /\ legacy
                  /\ \/ streamed
                     \/ resp.kind # "json"
                     \/ "prompt" \notin DOMAIN body
      completion == IF chat /\ ~threw
                    THEN IF streamed THEN fromStream.text ELSE "hello"
                    ELSE IF legacy /\ ~threw THEN "hello"
                    ELSE ""
  IN [threw             |-> threw,
      openai_id         |-> IF streamed THEN first.id
                            ELSE IF DocId(resp) = NoId THEN "" ELSE DocId(resp),
      completion        |-> completion,
      prompt_tokens     |-> IF chat /\ ~threw THEN prompt.n
                            ELSE IF legacy /\ ~threw
                            THEN getTokenCount(body.prompt)
                            ELSE 0,
      completion_tokens |-> IF (chat \/ legacy) /\ ~threw
                            THEN getTokenCount(completion) ELSE 0]

\* Variant: the UPDATE addresses the first row of the table, not the
\* request's own.
WhereIdFirstRow(r) == CHOOSE i \in Ids : \A j \in Ids : i <= j

\* WHERE id = $10: the uuid the handler passed.
WhereId(r) == uuid[r]

\* Variant: status is not in the SET list, the row keeps the default.
UpdatedRowKeepStatus(row, a, streamed, status) ==
  [row EXCEPT !.openai_id = a.openai_id, !.streamed = streamed,
              !.prompt_tokens = a.prompt_tokens,
              !.completion_tokens = a.completion_tokens,
              !.completion = a.completion]

\* The row after UPDATE "Request" SET openai_id, response_body,
\* streamed_response_body, streamed, prompt_tokens, completion_tokens,
\* completion, "updatedAt", status: the cached column is not in the SET list.
UpdatedRow(row, a, streamed, status) ==
  [row EXCEPT !.openai_id = a.openai_id, !.streamed = streamed,
              !.prompt_tokens = a.prompt_tokens,
              !.completion_tokens = a.completion_tokens,
              !.completion = a.completion, !.status = status]

\* Variant: a failed UPDATE leaves some of its columns written.
afterPartialUpdate(row, a) == [row EXCEPT !.completion = a.completion]

\* client.query rejects: the statement changed nothing, and the catch block
\* logs the error and returns null.
afterFailedUpdate(row, a) == row

\* The task saveRequestToDb(...) handed to ctx.waitUntil.  ok: the store
\* executes the UPDATE; otherwise client.query rejects, which is caught.
saveRequestToDb(r, ok) ==
  /\ save[r] = "scheduled"
  /\ LET a == Accounting(Url(r), Body(r), Streaming(Body(r)), response[r],
                         responseData[r])
         id == WhereId(r)
     IN IF a.threw
        THEN /\ ok
             /\ save' = [save EXCEPT ![r] = "rejected"]
             /\ UNCHANGED <<db, updates>>
        ELSE /\ updates' = [updates EXCEPT ![r] = Append(@, id)]
             /\ save' = [save EXCEPT ![r] = IF ok THEN "updated" ELSE "failed"]
             /\ db' = IF id \in Ids /\ db[id] # NoRow
                      THEN [db EXCEPT ![id] =
                              IF ok
                              THEN UpdatedRow(@, a, Streaming(Body(r)),
                                              response[r].status)
                              ELSE afterFailedUpdate(@, a)]
                      ELSE db
  /\ UNCHANGED <<pc, req, uuid, response, cached, out, nread, put, cache,
                 lookup, upstreamCalls, inserts, afterReturns>>
  /\ UNCHANGED <<streamVars, upstreamReq, tk, rd>>

\* ------------------------------------------------------------ specification
\* Several requests handled concurrently; every event stream is PlainStream
\* and every body arrives in NChunks chunks.
Next ==
  \/ \E r \in Reqs, in \in Inbound : Receive(r, in)
  \/ \E r \in Reqs : Authenticate(r)
  \/ \E r \in Reqs, ok \in BOOLEAN : saveInitialRequestToDb(r, ok)
  \/ \E r \in Reqs : CacheMatch(r)
  \/ \E r \in Reqs, o \in UpstreamOutcomes : UpstreamFetch(r, o, PlainStream)
  \/ \E r \in Reqs : CachePut(r)
  \/ \E r \in Reqs : Respond(r, EvenCuts(Len(BodyText(response[r]))))
  \/ \E r \in Reqs : ReadChunk(r)
  \/ \E r \in Reqs : StreamDone(r)
  \/ \E r \in Reqs, ok \in BOOLEAN : saveRequestToDb(r, ok)

Spec == Init /\ [][Next]_vars

\* One request followed from arrival to the last background task and to the
\* caller's reading of the response: any request of InboundSolo, any event
\* stream of Streams, cut into chunks in any way.
NextSolo ==
  \/ \E in \in InboundSolo : Receive(1, in)
  \/ Authenticate(1)
  \/ \E ok \in BOOLEAN : saveInitialRequestToDb(1, ok)
  \/ CacheMatch(1)
  \/ \E o \in UpstreamOutcomes, lines \in Streams : UpstreamFetch(1, o, lines)
  \/ UpstreamFetch(1, "errtext", <<>>)
  \/ UpstreamFetch(1, "stream", PlainStream)
  \/ \E lines \in InterruptedStreams : UpstreamFetch(1, "aborted", lines)
  \/ CachePut(1)
  \/ \E cuts \in AllCuts(2 * MaxLines) : Respond(1, cuts)
  \/ ReadChunk(1)
  \/ StreamDone(1)
  \/ StreamError(1)
  \/ \E ok \in BOOLEAN : saveRequestToDb(1, ok)
  \/ CallerRead(1)

SpecSolo == Init /\ [][NextSolo]_vars

\* Requests 1 and 2, with the same path and body and any headers and query
\* string, handled concurrently.
Pair == {1, 2}

NextPair ==
  \/ \E r \in Pair, in \in InboundPair : Receive(r, in)
  \/ \E r \in Pair : Authenticate(r)
  \/ \E r \in Pair : saveInitialRequestToDb(r, TRUE)
  \/ \E r \in Pair : CacheMatch(r)
  \/ \E r \in Pair, o \in {"ok", "error"} : UpstreamFetch(r, o, <<>>)
  \/ \E r \in Pair : CachePut(r)
  \/ \E r \in Pair : Respond(r, {})
  \/ \E r \in Pair : saveRequestToDb(r, TRUE)

SpecPair == Init /\ [][NextPair]_vars

\* The event streams of such a run: a frame and the terminator, the
\* terminator alone, and a first line that is no JSON.
UrlStreams == {PlainStream, <<DoneLine>>, <<BadLine, DoneLine>>}

NextUrls ==
  \/ \E in \in InboundUrls : Receive(1, in)
  \/ Authenticate(1)
  \/ saveInitialRequestToDb(1, TRUE)
  \/ CacheMatch(1)
  \/ \E o \in {"ok", "error", "stream"}, lines \in UrlStreams :
       UpstreamFetch(1, o, lines)
  \/ CachePut(1)
  \/ \E cuts \in {{}, {1}} : Respond(1, cuts)
  \/ ReadChunk(1)
  \/ StreamDone(1)
  \/ \E ok \in BOOLEAN : saveRequestToDb(1, ok)

SpecUrls == Init /\ [][NextUrls]_vars

\* ------------------------------------- numTokensFromMessages, call by call
\* Longest message list of a call.
MaxMessages == 2

\* Messages: role and content, and the optional name and function_call.
Messages ==
  {[role |-> "user", content |-> "hi"],
   [role |-> "user", content |-> "hello", name |-> "bob"],
   [role |-> "assistant", content |-> "", function_call |-> "f()"]}

\* Model identifiers: the listed ones, the legacy one, unlisted ones of the
\* two families and ones of no family.
ModelIds ==
  KnownModels
  \cup {Gpt35Turbo0301, Gpt4, TextDavinci003,
        <<"gpt-3.5-turbo">>, <<"gpt-3.5-turbo", "-1106">>,
        <<"ft:", "gpt-3.5-turbo", ":org">>, <<"gpt-4", "o">>,
        <<"gpt-3.5-turbo", "-vs-", "gpt-4">>, <<"claude-3">>}

Call(messages, model) ==
  [at |-> "called", messages |-> messages, model |-> model, given |-> model,
   depth |-> 0, result |-> 0]

\* One invocation of numTokensFromMessages: it returns the count, calls
\* itself with the model of the fallback, or throws.
numTokensFromMessagesCall ==
  /\ tk.at = "called"
  /\ LET f == framing(tk.model) IN
       tk' = CASE f.kind = "count" ->
                    [tk EXCEPT !.at = "returned",
                               !.result = CountTokens(tk.messages, f)]
               [] f.kind = "recurse" ->
                    [tk EXCEPT !.model = f.model, !.depth = @ + 1]
               [] OTHER -> [tk EXCEPT !.at = "threw"]
  /\ UNCHANGED <<pc, req, uuid, response, cached, out, nread, put, save, cache,
                 db, lookup, upstreamCalls, updates, inserts, afterReturns,
                 streamVars, upstreamReq, rd>>

InitTokens ==
  /\ InitHandler /\ rd = NoReader
  /\ tk \in {Call(messages, model) :
               messages \in SeqsUpTo(Messages, MaxMessages), model \in ModelIds}

NextTokens == numTokensFromMessagesCall

SpecTokens == InitTokens /\ [][NextTokens]_vars

\* ------------------------------------- the handler that parses every chunk
\* responseData.endsWith("\n"): the text ends with the end of a line.
endsWith(text) == text # <<>> /\ text[Len(text)].half = 2

\* The empty string split leaves after the last "\n\n".
EmptyLine == [t |-> "empty", id |-> NoId, delta |-> FALSE, content |-> ""]

\* responseData.replace(/data: /g, "").split("\n\n"), each piece split at
\* "\n": the lines of the text so far, and the empty string at its end.
listChunk(text) == SplitLines(text) \o <<EmptyLine>>

\* line.includes("{"): a frame has a brace, and so has the line that is no
\* JSON (a truncated frame); [DONE] and the empty string have none.
includesBrace(line) == line.t \in {"frame", "bad", "json", "errjson"}

\* if (!line.includes("{")) return reader.read().then(process): inside
\* forEach the return ends the callback of that line only, after it has
\* issued one more read with its own continuation.
issuesRead(line) == ~includesBrace(line)

\* The reads the forEach issues over the lines.
ReadsIn(lines) == Cardinality({i \in DOMAIN lines : issuesRead(lines[i])})

\* What the forEach appends to rawText: choices[0].delta.content of the
\* lines that parse and have one; JSON.parse of another line throws into
\* the catch of its callback.
RECURSIVE rawTextOf(_)
rawTextOf(lines) ==
  IF lines = <<>> THEN ""
  ELSE (IF Head(lines).t = "frame" /\ Head(lines).delta
        THEN Head(lines).content ELSE "")
         \o rawTextOf(Tail(lines))

\* value[0] throws: a read that resolves with done: true has value
\* undefined, and indexing undefined is a TypeError; a chunk is a
\* Uint8Array and can be indexed.
valueThrows(isDone) == isDone

\* process({done, value}), run when the oldest read resolves.  The first
\* try evaluates value[0] for its log line and its catch throws
\* Error("Error parsing value"): that call ends there.  Past it, with done
\* saveRequestToDb is called with streamed true and responseData; otherwise
\* the chunk is appended, the text so far is parsed again when it ends with
\* a newline, and the call ends by awaiting one more read.
process ==
  /\ rd.at = "reading" /\ rd.reads >= 1
  /\ IF valueThrows(rd.next > Len(rd.chunks))
     THEN rd' = [rd EXCEPT !.reads = @ - 1, !.count = @ + 1,
                           !.thrown = @ + 1]
     ELSE IF rd.next > Len(rd.chunks)
     THEN rd' = [rd EXCEPT !.reads = @ - 1, !.count = @ + 1,
                           !.saves = @ + 1,
                           !.streamed_data = rd.responseData]
     ELSE LET data == rd.responseData \o rd.chunks[rd.next]
              lines == IF endsWith(data) THEN listChunk(data) ELSE <<>>
          IN rd' = [rd EXCEPT !.next = @ + 1, !.count = @ + 1,
                              !.responseData = data,
                              !.rawText = IF (rd.count + 1) % 2 = 0 THEN ""
                                          ELSE @ \o rawTextOf(lines),
                              !.reads = (@ - 1) + ReadsIn(lines) + 1]
  /\ UNCHANGED <<pc, req, uuid, response, cached, out, nread, put, save, cache,
                 db, lookup, upstreamCalls, updates, inserts, afterReturns,
                 streamVars, upstreamReq, tk>>

\* reader.read().then(process) on the clone of a streamed response: one
\* read is issued before the handler returns.
Reader(lines, cuts) ==
  [NoReader EXCEPT !.at = "reading", !.reads = 1,
                   !.chunks = Chunked(TextOf(lines), cuts)]

InitChunks ==
  /\ InitHandler /\ tk = NoCall
  /\ rd \in {Reader(lines, cuts) :
              lines \in Streams, cuts \in AllCuts(2 * MaxLines)}

NextChunks == process

SpecChunks == InitChunks /\ [][NextChunks]_vars

\* ================================================================== claims
RowsBy(r) == {i \in Ids : db[i].by = r}

\* Every task of the request has run: the handler is through and no
\* saveRequestToDb task is waiting.
Settled(r) == pc[r] = "done" /\ save[r] # "scheduled"

\* The number of UPDATEs, of any request, that address row i.
RECURSIVE CountIn(_, _)
CountIn(seq, i) ==
  IF seq = <<>> THEN 0
  ELSE (IF Head(seq) = i THEN 1 ELSE 0) + CountIn(Tail(seq), i)

RECURSIVE UpdatesOfRow(_, _)
UpdatesOfRow(i, rs) ==
  IF rs = {} THEN 0
  ELSE LET r == CHOOSE x \in rs : TRUE IN
         CountIn(updates[r], i) + UpdatesOfRow(i, rs \ {r})

\* Two requests with the same path and byte-identical body.
Identical(r1, r2) ==
  /\ pc[r1] # "idle" /\ pc[r2] # "idle"
  /\ req[r1].path = req[r2].path
  /\ req[r1].text = req[r2].text

\* C1 (as claimed): every request whose provisional row was inserted gets
\* its terminal UPDATE executed; once all its tasks have run, a request with
\* a provisional row has issued at least one UPDATE.
C1_FinalizeAlwaysRuns ==
  \A r \in Reqs :
    (RowsBy(r) # {} /\ Settled(r)) => Len(updates[r]) >= 1

\* C2: each provisional row receives at most one terminal UPDATE, and every
\* UPDATE a request issues uses as WHERE id the id its own INSERT returned,
\* which is the id of a row that request inserted.
C2_AtMostOneFinalizeOwnId ==
  /\ \A i \in Ids : UpdatesOfRow(i, Reqs) <= 1
  /\ \A r \in Reqs :
       \A n \in 1..Len(updates[r]) :
         /\ updates[r][n] = uuid[r]
         /\ updates[r][n] \in RowsBy(r)

\* C2 witness: two requests in flight together have both had their UPDATE
\* executed.
C2_Witness ==
  \E r1, r2 \in Reqs :
    /\ r1 < r2 /\ ~afterReturns[r2]
    /\ save[r1] = "updated" /\ save[r2] = "updated"

\* The request passed the key check, the user lookup and the method check.
Accepted(r) ==
  /\ pc[r] \notin {"idle", "auth"}
  /\ parseRequest(req[r].method, req[r].text).type # "SyntaxError"
  /\ Gate(req[r].header, req[r].method) = ""

\* The request has begun its cache lookup or its upstream call.
BeganResolve(r) ==
  \/ lookup[r] # "none"
  \/ upstreamCalls[r] > 0
  \/ pc[r] \in {"fetch", "respond", "reading"}

\* C3: a request issues at most one provisional INSERT; an accepted request
\* whose INSERT did not fail has exactly one row once it is past the INSERT;
\* and a request that has begun its cache lookup or its upstream call has
\* its row already, so no upstream call is made without a provisional row.
C3_ProvisionalBeforeUpstream ==
  \A r \in Reqs :
    /\ inserts[r] <= 1
    /\ Cardinality(RowsBy(r)) <= inserts[r]
    /\ (Accepted(r) /\ pc[r] # "saveInitial" /\ out[r].why # "insert")
         => (inserts[r] = 1 /\ Cardinality(RowsBy(r)) = 1)
    /\ BeganResolve(r) => Cardinality(RowsBy(r)) = 1
    /\ ~Accepted(r) => (inserts[r] = 0 /\ ~BeganResolve(r))

\* C3 witness: a request with its provisional row has made its upstream call.
C3_Witness ==
  \E r \in Reqs :
    /\ Cardinality(RowsBy(r)) = 1
    /\ lookup[r] = "miss" /\ upstreamCalls[r] = 1

\* C4: when the provisional INSERT fails the request ends with a 500 and
\* performs no cache lookup, no upstream fetch, no cache write and no
\* terminal UPDATE.
C4_InsertFailureAborts ==
  \A r \in Reqs :
    (inserts[r] >= 1 /\ RowsBy(r) = {}) =>
      /\ pc[r] = "done"
      /\ out[r].kind = "response" /\ out[r].status = 500
      /\ lookup[r] = "none"
      /\ upstreamCalls[r] = 0
      /\ put[r] = "none"
      /\ save[r] = "none" /\ updates[r] = <<>>

\* C4 witness: a request's INSERT has failed while another request went on
\* to the upstream.
C4_Witness ==
  \E r, q \in Reqs :
    /\ inserts[r] = 1 /\ RowsBy(r) = {} /\ out[r].status = 500
    /\ upstreamCalls[q] = 1

\* C5 (as claimed): two POST requests to the same path with different
\* bodies derive different cache keys in handleCaching, and neither is
\* served the response the other one fetched.
C5_DistinctBodiesDistinctKeys ==
  \A r1, r2 \in Reqs :
    ( /\ lookup[r1] # "none" /\ lookup[r2] # "none"
      /\ req[r1].path = req[r2].path
      /\ req[r1].text # req[r2].text )
    => /\ Key(r1) # Key(r2)
       /\ ~(cached[r2] /\ response[r2].origin = r1)

\* The request's handler returned the response it fetched from the upstream.
ReturnedMiss(r) ==
  /\ lookup[r] = "miss"
  /\ out[r].kind = "response" /\ out[r].body = response[r]
  /\ response[r] # NoResponse

\* C6 (as claimed): once a request has been answered from the upstream and
\* its handler has returned, a later request with the same path and body is
\* resolved from the cache: cached = true, no upstream call, the same status
\* and body.
C6_HitOnRepeat ==
  \A r1, r2 \in Reqs :
    ( /\ r1 < r2 /\ afterReturns[r2]
      /\ ReturnedMiss(r1)
      /\ Identical(r1, r2)
      /\ lookup[r2] # "none" )
    => /\ lookup[r2] = "hit" /\ cached[r2]
       /\ upstreamCalls[r2] = 0
       /\ response[r2] = response[r1]

\* C7 (as claimed): identical requests handled while their key has no cache
\* entry issue at most one upstream fetch between them.
C7_NoStampede ==
  \A r1, r2 \in Reqs :
    ( /\ r1 # r2 /\ Identical(r1, r2)
      /\ lookup[r1] # "none" /\ lookup[r2] # "none"
      /\ cache[Key(r1)] = NoResponse )
    => ~(upstreamCalls[r1] >= 1 /\ upstreamCalls[r2] >= 1)

\* C7 (amended): there is no single-flight; each request issues at most one
\* upstream fetch, exactly one once its own lookup has missed, and none when
\* its own lookup found an entry.
C7_OneFetchPerMiss ==
  \A r \in Reqs :
    /\ upstreamCalls[r] <= 1
    /\ upstreamCalls[r] = 1 => lookup[r] = "miss"
    /\ (lookup[r] = "miss" /\ pc[r] # "fetch") => upstreamCalls[r] = 1
    /\ lookup[r] = "hit" => (upstreamCalls[r] = 0 /\ cached[r])

\* C7 witness: two identical requests in flight together have each made an
\* upstream call.
C7_Witness ==
  \E r1, r2 \in Reqs :
    /\ r1 < r2 /\ ~afterReturns[r2] /\ Identical(r1, r2)
    /\ upstreamCalls[r1] = 1 /\ upstreamCalls[r2] = 1

\* The upstream fetch of the request was issued and failed in transport.
FetchFailed(r) ==
  /\ upstreamCalls[r] >= 1
  /\ pc[r] # "fetch"
  /\ response[r] = NoResponse

\* C8 (as claimed): when the upstream fetch fails the caller gets a response
\* with status 500, nothing is written to the cache and no exception leaves
\* the handler.
C8_UpstreamFailureGives500 ==
  \A r \in Reqs :
    FetchFailed(r) =>
      /\ out[r].kind = "response" /\ out[r].status = 500
      /\ put[r] = "none"

\* C9 (as claimed): after the terminal UPDATE the row's cached flag is the
\* cached value handleCaching returned to the request.
C9_LoggedCacheFlag ==
  \A r \in Reqs :
    save[r] = "updated" => db[uuid[r]].cached = cached[r]

\* The request carries no key, or a key of no user.
Unauthenticated(r) ==
  /\ pc[r] # "idle"
  /\ \/ KeyOf(req[r].header) = ""
     \/ getUser(KeyOf(req[r].header)) = NoUser

\* C10 (as claimed): whatever its method and body, a request without a key
\* or with a key of no user is answered 401, and inserts no row, touches no
\* cache entry and makes no upstream call.
C10_AuthGate ==
  \A r \in Reqs :
    Unauthenticated(r) =>
      /\ pc[r] = "done" => (out[r].kind = "response" /\ out[r].status = 401)
      /\ inserts[r] = 0 /\ RowsBy(r) = {}
      /\ lookup[r] = "none" /\ put[r] = "none"
      /\ upstreamCalls[r] = 0

\* The request's method is not POST.
NonPost(r) == pc[r] # "idle" /\ req[r].method # "POST"

\* The request left no trace: no INSERT, no row, no cache access, no
\* upstream call.
NoEffects(r) ==
  /\ inserts[r] = 0 /\ RowsBy(r) = {}
  /\ lookup[r] = "none" /\ put[r] = "none"
  /\ upstreamCalls[r] = 0

\* C11 (as claimed): every request whose method is not POST is answered 405
\* and inserts no row, accesses no cache entry and makes no upstream call.
C11_MethodGate ==
  \A r \in Reqs :
    NonPost(r) =>
      /\ pc[r] = "done" => (out[r].kind = "response" /\ out[r].status = 405)
      /\ NoEffects(r)

\* C11 (amended): the key check and getUser come before the method check, so
\* a request whose method is not POST is answered 405 when it carries the
\* key of a known user and 401 otherwise; in both cases it inserts no row,
\* accesses no cache entry and makes no upstream call.
C11_MethodGateAfterAuth ==
  \A r \in Reqs :
    NonPost(r) =>
      /\ pc[r] = "done" =>
           /\ out[r].kind = "response"
           /\ out[r].status = IF Unauthenticated(r) THEN 401 ELSE 405
      /\ NoEffects(r)

\* A request of a known user with another method has been answered 405.
C11_Witness ==
  \E r \in Reqs :
    /\ NonPost(r) /\ ~Unauthenticated(r)
    /\ pc[r] = "done" /\ out[r].status = 405

\* p is an initial part of the text t.
IsPrefix(p, t) == Len(p) <= Len(t) /\ SubSeq(t, 1, Len(p)) = p

\* The handler returned a response to a request with stream: true.
StreamedTo(r) ==
  /\ pc[r] \in {"reading", "done"}
  /\ Streaming(Body(r))
  /\ out[r].kind = "response" /\ out[r].body # NoResponse

\* The caller has read the returned response to its end.
CallerAtEnd(r) == clone(ncaller[r], nread[r]) > Len(chunks[r])

\* C12: in streaming mode the bytes the caller reads are the bytes the
\* upstream (or the cache entry) produced, in order and complete once the
\* caller has read to the end, however the body is cut into chunks and
\* whatever the accounting reader on the clone has read or failed to parse.
C12_StreamingPassthrough ==
  \A r \in Reqs :
    StreamedTo(r) =>
      /\ IsPrefix(delivered[r], BodyText(response[r]))
      /\ CallerAtEnd(r) => delivered[r] = BodyText(response[r])

\* A stream cut in the middle of its first frame has been read to the end by
\* the caller, while the accounting task of the request failed to parse it.
C12_Witness ==
  \E r \in Reqs :
    /\ StreamedTo(r) /\ response[r].kind = "sse"
    /\ Len(chunks[r]) >= 2 /\ Len(chunks[r][1]) = 1
    /\ save[r] = "rejected"
    /\ CallerAtEnd(r) /\ delivered[r] = BodyText(response[r])

\* A frame that parses and has choices[0].delta.
WellFormed(line) == line.t = "frame" /\ line.delta

\* A frame that is no JSON, or has no choices[0].delta (the terminator
\* data: [DONE] is not a frame).
Malformed(line) == line.t = "bad" \/ (line.t = "frame" /\ ~line.delta)

\* The concatenation, in order, of the content of the well-formed frames.
RECURSIVE ContentOf(_)
ContentOf(lines) ==
  IF lines = <<>> THEN ""
  ELSE (IF WellFormed(Head(lines)) THEN Head(lines).content ELSE "")
         \o ContentOf(Tail(lines))

\* The terminal UPDATE of a streamed chat-completions response was executed.
StreamedUpdate(r) ==
  /\ save[r] = "updated"
  /\ Streaming(Body(r)) /\ Url(r) = ChatUrl
  /\ response[r].kind = "sse"

\* C13 (as claimed): the completion text the terminal update writes for a
\* streamed chat-completions response is the concatenation, in order, of
\* choices[0].delta.content over all well-formed frames of the stream,
\* whatever the cut of the stream into chunks.
C13_CompletionAccumulation ==
  \A r \in Reqs :
    StreamedUpdate(r) =>
      db[uuid[r]].completion = ContentOf(response[r].lines)

\* The accounting task of a streamed response has run.
StreamAccounted(r) ==
  /\ Streaming(Body(r)) /\ Url(r) = ChatUrl
  /\ response[r].kind = "sse"
  /\ save[r] \in {"updated", "failed", "rejected"}

\* C14 (as claimed): a frame of a streamed response that is no JSON or has
\* no choices[0].delta contributes nothing and capture goes on: the terminal
\* update is still executed, with the content of the well-formed frames.
C14_MalformedFramesSkipped ==
  \A r \in Reqs :
    (/\ StreamAccounted(r)
     /\ \E i \in DOMAIN response[r].lines : Malformed(response[r].lines[i]))
    =>
      /\ save[r] \in {"updated", "failed"}
      /\ save[r] = "updated" =>
           db[uuid[r]].completion = ContentOf(response[r].lines)

\* The id of the first frame, in stream order, that has an id field.
RECURSIVE FirstId(_)
FirstId(lines) ==
  IF lines = <<>> THEN NoId
  ELSE IF Head(lines).t = "frame" /\ Head(lines).id # NoId
       THEN Head(lines).id
       ELSE FirstId(Tail(lines))

\* C15 (as claimed): the openai_id the terminal update writes for a streamed
\* response is the id of the first frame that has an id field; a later id
\* never changes it and a leading frame without id does not prevent the
\* capture of a later frame's id.
C15_FirstIdCaptured ==
  \A r \in Reqs :
    StreamedUpdate(r) =>
      db[uuid[r]].openai_id = FirstId(response[r].lines)

RECURSIVE SumSeq(_)
SumSeq(ns) == IF ns = <<>> THEN 0 ELSE Head(ns) + SumSeq(Tail(ns))

\* The tokenized length of the values of all the fields of a message.
ValueTokens(m) ==
  tokenize(m.role) + tokenize(m.content)
    + (IF "name" \in DOMAIN m THEN tokenize(m.name) ELSE 0)
    + (IF "function_call" \in DOMAIN m THEN tokenize(m.function_call) ELSE 0)

\* The count in closed form, for the overheads perMessage and perName.
TokenFormula(messages, perMessage, perName) ==
  perMessage * Len(messages)
    + SumSeq([i \in DOMAIN messages |-> ValueTokens(messages[i])])
    + perName * Cardinality({i \in DOMAIN messages : "name" \in DOMAIN messages[i]})
    + 3

\* C16: for a model of a supported family numTokensFromMessages returns the
\* sum over the messages of (perMessage + the tokenized length of every field
\* value + perName when the message has a name), plus 3, with
\* (perMessage, perName) = (4, -1) for gpt-3.5-turbo-0301 and (3, +1) for the
\* other supported models.
C16_TokenFormula ==
  tk.at = "returned" =>
    tk.result = IF tk.given = Gpt35Turbo0301
                THEN TokenFormula(tk.messages, 4, -1)
                ELSE TokenFormula(tk.messages, 3, 1)

\* A call for the legacy model, with two messages of which one has a name,
\* has returned.
C16_Witness ==
  /\ tk.at = "returned" /\ tk.given = Gpt35Turbo0301
  /\ Len(tk.messages) = 2
  /\ \E i \in DOMAIN tk.messages : "name" \in DOMAIN tk.messages[i]
  /\ \E i \in DOMAIN tk.messages : "function_call" \in DOMAIN tk.messages[i]

\* The model is one numTokensFromMessages has overheads for.
Supported(model) ==
  \/ model \in KnownModels \/ model = Gpt35Turbo0301
  \/ includes(model, "gpt-3.5-turbo") \/ includes(model, "gpt-4")

\* C17 (as claimed): the prompt_tokens the terminal update writes for a
\* chat-completions request whose body names model m is the token formula
\* with the overheads of m's family.
C17_ModelSpecificPromptTokens ==
  \A r \in Reqs :
    (/\ save[r] = "updated" /\ Url(r) = ChatUrl
     /\ Supported(Body(r).model))
    =>
      db[uuid[r]].prompt_tokens =
        IF Body(r).model = Gpt35Turbo0301
        THEN TokenFormula(Body(r).messages, 4, -1)
        ELSE TokenFormula(Body(r).messages, 3, 1)

\* The model is one the if-chain names: a listed one or the legacy one.
Listed(model) == model \in KnownModels \/ model = Gpt35Turbo0301

\* C18: a model the function does not name falls back, in one step, to
\* gpt-3.5-turbo-0613 when its id contains gpt-3.5-turbo and to gpt-4-0613
\* when it contains gpt-4, and the call returns the count of that variant; a
\* model of neither family makes the call throw; no call recurses more than
\* once.  (An id containing both names takes the first branch.)
C18_ModelDispatch ==
  /\ tk.depth <= 1
  /\ (tk.at = "called" /\ tk.depth = 1) => framing(tk.model).kind = "count"
  /\ (tk.at \in {"returned", "threw"} /\ ~Listed(tk.given)) =>
       IF includes(tk.given, "gpt-3.5-turbo")
       THEN /\ tk.at = "returned" /\ tk.depth = 1
            /\ tk.model = Gpt35Turbo0613
            /\ tk.result = numTokensFromMessages(tk.messages, Gpt35Turbo0613).n
       ELSE IF includes(tk.given, "gpt-4")
       THEN /\ tk.at = "returned" /\ tk.depth = 1
            /\ tk.model = Gpt40613
            /\ tk.result = numTokensFromMessages(tk.messages, Gpt40613).n
       ELSE tk.at = "threw" /\ tk.depth = 0
  /\ (tk.at \in {"returned", "threw"} /\ Listed(tk.given)) =>
       tk.at = "returned" /\ tk.depth = 0

\* A call for a fine-tuned gpt-3.5-turbo model has returned after one
\* fallback step.
C18_Witness ==
  /\ tk.at = "returned" /\ tk.depth = 1
  /\ tk.given = <<"ft:", "gpt-3.5-turbo", ":org">>
  /\ tk.messages # <<>>

\* The names of the headers of the request sent upstream.
HeaderNames(headers) == {h[1] : h \in headers}

\* C19: on every cache miss the request sent upstream has the inbound
\* method, the inbound body unchanged, the URL https://api.openai.com + the
\* inbound path + the inbound query string, and exactly the headers
\* Content-Type, Authorization and X-Api-Key: no other inbound header is
\* forwarded.  Without a miss nothing is sent.
C19_UpstreamRequestShape ==
  \A r \in Reqs :
    IF upstreamCalls[r] >= 1
    THEN /\ lookup[r] = "miss"
         /\ upstreamReq[r].method = req[r].method
         /\ upstreamReq[r].body = req[r].text
         /\ upstreamReq[r].url =
              <<"https://api.openai.com", req[r].path, req[r].query>>
         /\ HeaderNames(upstreamReq[r].headers) =
              {"Content-Type", "Authorization", "X-Api-Key"}
         /\ HeaderNames(upstreamReq[r].headers) \cap req[r].others = {}
    ELSE upstreamReq[r] = NoUpstreamRequest

\* A request with a query string and with other headers has missed the cache
\* and has been sent upstream.
C19_Witness ==
  \E r \in Reqs :
    /\ upstreamCalls[r] = 1 /\ lookup[r] = "miss"
    /\ req[r].query # "" /\ req[r].others # {}

\* C20: when the terminal UPDATE of a request fails in the store, the step
\* changes no row of the table, and the row of the request is still exactly
\* the row the provisional INSERT wrote (sentinel completion, zero token
\* counts, cached = false, streamed = false): neither deleted nor partly
\* updated.
C20_FailedUpdateChangesNothing ==
  [][\A r \in Reqs :
       (save[r] = "scheduled" /\ save'[r] = "failed") =>
         /\ db' = db
         /\ db'[uuid[r]] = InitialRow(r)
         /\ db'[uuid[r]].completion = Sentinel
         /\ db'[uuid[r]].prompt_tokens = 0 /\ db'[uuid[r]].completion_tokens = 0
         /\ ~db'[uuid[r]].cached /\ ~db'[uuid[r]].streamed]_vars

\* The UPDATE of one request has failed and its row is the provisional one,
\* while the row of another request has been updated.
C20_Witness ==
  \E r, q \in Reqs :
    /\ r # q
    /\ save[r] = "failed" /\ db[uuid[r]] = InitialRow(r)
    /\ save[q] = "updated" /\ db[uuid[q]] # InitialRow(q)

\* handleCaching has returned a response to the handler, from the upstream
\* or from the cache, and the handler is through with it.
Obtained(r) == response[r] # NoResponse /\ pc[r] \in {"reading", "done"}

\* C21 (as claimed): once the upstream or cached response has been obtained,
\* the caller is delivered that response, whatever fails in the parsing of
\* the body for accounting, in the extraction of the completion, in the
\* token count or in the terminal UPDATE, in both modes.
C21_AccountingNeverReachesCaller ==
  \A r \in Reqs :
    Obtained(r) => out[r] = Delivered(response[r])

\* C22: the handler returns the response without waiting for the terminal
\* UPDATE: at the step that returns it the UPDATE has not been executed (it
\* is at most handed to the runtime), and in streaming mode the accounting
\* reader has read no chunk of the clone yet.
C22_ResponseNotWaitingOnLogging ==
  [][\A r \in Reqs :
       (~Returned(r) /\ out'[r] = Delivered(response[r])
          /\ response[r] # NoResponse)
       => /\ save'[r] \in {"none", "scheduled"}
          /\ db'[uuid[r]] = InitialRow(r)
          /\ Streaming(Body(r)) =>
               (save'[r] = "none" /\ nread'[r] = 0 /\ responseData'[r] = "")]_vars

\* The caller has read the whole of a streamed response of two chunks while
\* the accounting reader has read nothing and no UPDATE is scheduled.
C22_Witness ==
  \E r \in Reqs :
    /\ out[r] = Delivered(response[r]) /\ response[r] # NoResponse
    /\ Streaming(Body(r))
    /\ Len(chunks[r]) >= 2 /\ CallerAtEnd(r)
    /\ nread[r] = 0 /\ save[r] = "none"

\* The terminal update of a streamed response has been handed to the runtime
\* (and perhaps executed since).
StreamFinalized(r) ==
  /\ Streaming(Body(r)) /\ response[r] # NoResponse
  /\ save[r] # "none"

\* C23: in streaming mode the terminal update is scheduled only after the
\* reader has seen the end of the stream: every chunk of the clone has been
\* read and appended to responseData in the order of arrival, so that
\* responseData is the whole body, and no chunk is outstanding.
C23_FinalizeAfterLastChunk ==
  \A r \in Reqs :
    StreamFinalized(r) =>
      /\ pc[r] = "done"
      /\ nread[r] = Len(chunks[r])
      /\ responseData[r] = BodyText(response[r])

\* The terminal update of a stream that arrived in three chunks or more is
\* scheduled.
C23_Witness ==
  \E r \in Reqs :
    /\ StreamFinalized(r) /\ save[r] = "scheduled"
    /\ response[r].kind = "sse"
    /\ Len(chunks[r]) >= 3 /\ nread[r] = Len(chunks[r])

\* A streamed response whose body failed before its normal end, after the
\* reader has come to the failure.
Interrupted(r) ==
  /\ Streaming(Body(r))
  /\ response[r].kind = "cut" /\ out[r] = Delivered(response[r])
  /\ pc[r] = "done"

\* C24 (as claimed): when a streamed response stops before its normal end,
\* the terminal update is still scheduled, with the completion accumulated so
\* far, and the row does not stay the provisional one.
C24_InterruptedStreamFinalized ==
  \A r \in Reqs :
    Interrupted(r) =>
      /\ save[r] # "none"
      /\ save[r] = "updated" => db[uuid[r]] # InitialRow(r)

\* C25 (as claimed): only a successful upstream response is stored in the
\* cache: no entry holds an error status and no request is served an error
\* response as a cache hit.
C25_OnlySuccessCached ==
  /\ \A k \in DOMAIN cache :
       cache[k] # NoResponse => cache[k].status = 200
  /\ \A r \in Reqs :
       (lookup[r] = "hit" /\ Returned(r)) => out[r].status = 200

\* C26 (as claimed): an existing cache entry is never written again: no step
\* of any request changes a key that holds a response.
C26_EntryWrittenOnce ==
  [][\A k \in DOMAIN cache :
       cache[k] # NoResponse => cache'[k] = cache[k]]_vars

\* Both requests have been looked up in the cache.
LookedUp(r1, r2) == lookup[r1] # "none" /\ lookup[r2] # "none"

\* C27 (as claimed): two requests with the same path and the same body text
\* derive the same cache key, and so share one cache entry, whatever their
\* headers and whoever the caller.
C27_KeyOnlyPathAndBody ==
  \A r1, r2 \in Reqs :
    ( /\ r1 < r2 /\ LookedUp(r1, r2)
      /\ req[r1].path = req[r2].path /\ req[r1].text = req[r2].text )
    => Key(r1) = Key(r2)

\* choices[0].message.content of a completion document.
MessageContent(resp) == IF resp.kind = "json" THEN "hello" ELSE ""

\* The terminal UPDATE of a non-streamed chat-completions request answered
\* by the upstream with a completion document has been executed.
BufferedUpdate(r) ==
  /\ save[r] = "updated"
  /\ ~Streaming(Body(r)) /\ Url(r) = ChatUrl
  /\ lookup[r] = "miss" /\ response[r].kind = "json"
  /\ Supported(Body(r).model)

\* The record of a buffered request, the prompt token count left aside.
BufferedRecord(r) ==
  /\ out[r] = Delivered(response[r])
  /\ out[r].status = response[r].status /\ out[r].body = response[r]
  /\ ~db[uuid[r]].streamed /\ ~db[uuid[r]].cached
  /\ db[uuid[r]].completion = MessageContent(response[r])
  /\ db[uuid[r]].status = response[r].status
  /\ db[uuid[r]].completion_tokens = tokenize(MessageContent(response[r]))

\* C28 (as claimed): for a non-streamed chat-completions request resolved by
\* a cache miss with a well-formed completion document, the caller receives
\* the upstream status and body unchanged, and after the terminal update the
\* row has streamed = false, cached = false, the completion
\* choices[0].message.content, the upstream status, and the token counts of
\* the request messages and of that completion.
C28_BufferedRecord ==
  \A r \in Reqs :
    BufferedUpdate(r) =>
      /\ BufferedRecord(r)
      /\ db[uuid[r]].prompt_tokens =
           IF Body(r).model = Gpt35Turbo0301
           THEN TokenFormula(Body(r).messages, 4, -1)
           ELSE TokenFormula(Body(r).messages, 3, 1)

\* C29: every response produced by a cache miss has Cache-Control:
\* public, max-age=2592000, whatever value the upstream sent, in the copy
\* returned to the caller and in the copy stored in the cache; a response
\* served from the cache is returned as it was stored by a miss.
C29_CacheControlOnMiss ==
  /\ \A r \in Reqs :
       (lookup[r] = "miss" /\ response[r] # NoResponse) =>
         /\ response[r].cacheControl = "public, max-age=2592000"
         /\ out[r].kind = "response" =>
              out[r].body.cacheControl = "public, max-age=2592000"
  /\ \A k \in DOMAIN cache :
       cache[k] # NoResponse =>
         cache[k].cacheControl = "public, max-age=2592000"
  /\ \A r \in Reqs :
       (lookup[r] = "hit" /\ out[r].kind = "response") =>
         /\ out[r].body = response[r]
         /\ \E q \in Reqs : lookup[q] = "miss" /\ response[q] = response[r]

\* A request answered by the upstream with another Cache-Control value has
\* been returned and stored, and a second request has been served the entry.
C29_Witness ==
  \E r1, r2 \in Reqs :
    /\ lookup[r1] = "miss" /\ out[r1] = Delivered(response[r1])
    /\ response[r1].status = 200 /\ put[r1] = "done"
    /\ UpstreamResponse(r1, req[r1].path, Body(r1), "ok", <<>>).cacheControl
         = "no-cache, must-revalidate"
    /\ lookup[r2] = "hit" /\ out[r2] = Delivered(response[r1])

\* C30 (as claimed): in the handler that parses every chunk at most one
\* reader.read() is outstanding at any time, so that there is one chain of
\* process calls, whatever lines the chunks contain.
C30_SingleInOrderReader ==
  rd.at = "reading" => rd.reads <= 1

\* The reader of the per-chunk handler has reported done: a read has
\* resolved after the last chunk.
ReaderReportedDone ==
  /\ rd.at = "reading"
  /\ rd.next > Len(rd.chunks)
  /\ rd.count > Len(rd.chunks)

\* C31 (as claimed): in the handler that parses every chunk, once the reader
\* has reported done saveRequestToDb has been called, once only, with the
\* accumulated text of the stream.
C31_StreamEndTriggersLogWrite ==
  /\ rd.saves <= 1
  /\ ReaderReportedDone =>
       (rd.saves = 1 /\ rd.streamed_data = rd.responseData)

\* The stream field of the request's parsed body is the boolean true.
StreamIsTrue(r) == Body(r).stream = "true"

\* C32: the handler takes the streaming branch (it attaches the reader and
\* returns) exactly when the stream field of the parsed body is the boolean
\* true, and the buffered branch for every other body (field absent, false,
\* or the string "true"); the terminal update writes streamed accordingly,
\* whether or not the response is an event stream.
C32_ModeSelection ==
  [][\A r \in Reqs :
       /\ (pc[r] = "respond" /\ pc'[r] # "respond") =>
            IF StreamIsTrue(r)
            THEN pc'[r] = "reading" /\ out'[r] = Delivered(response[r])
            ELSE /\ pc'[r] = "done" /\ nread'[r] = 0
                 /\ response[r].kind = "sse" => out'[r] = Thrown("json")
       /\ (save[r] # "updated" /\ save'[r] = "updated") =>
            db'[uuid[r]].streamed = StreamIsTrue(r)]_vars

\* A request whose stream field is the string "true" has gone through the
\* buffered branch and its row is updated with streamed = false.
C32_Witness ==
  \E r \in Reqs :
    /\ Body(r).stream = "string:true" /\ pc[r] = "done"
    /\ out[r] = Delivered(response[r]) /\ nread[r] = 0
    /\ save[r] = "updated" /\ ~db[uuid[r]].streamed

\* The lines of a stream but the last.
ButLast(lines) == SubSeq(lines, 1, Len(lines) - 1)

\* C33: getCompletionFromStream never parses the last non-empty line of the
\* text and parses every other one: it throws exactly when a line before the
\* last is no JSON or has no choices[0].delta, whatever the last line is;
\* when it returns, its result is the concatenation of
\* choices[0].delta.content ("" when absent) over the lines before the last;
\* the empty text gives "".  The completion of an executed terminal update
\* of a streamed response is that result.
C33_LastLineNeverParsed ==
  \A r \in Reqs :
    response[r].kind = "sse" =>
      LET lines == response[r].lines
          got == getCompletionFromStream(lines)
      IN /\ lines = <<>> => (~got.threw /\ got.text = "")
         /\ got.threw <=>
              \E i \in 1..(Len(lines) - 1) : ~WellFormed(lines[i])
         /\ ~got.threw => got.text = ContentOf(ButLast(lines))
         /\ StreamedUpdate(r) =>
              (~got.threw /\ db[uuid[r]].completion = got.text)

\* The terminal update of a stream of a frame and a last line that is no
\* JSON has been executed with the content of the frame.
C33_Witness ==
  \E r \in Reqs :
    /\ StreamedUpdate(r) /\ Len(response[r].lines) = 2
    /\ response[r].lines[1] = FrameA
    /\ response[r].lines[2].t \in {"done", "bad"}
    /\ db[uuid[r]].completion = "a"

\* The upstream URL of the request is neither of the two URLs saveRequestToDb
\* has accounting for: another path, or one of the two with a query string.
NotAccounted(r) ==
  /\ pc[r] # "idle"
  /\ Url(r) # <<"https://api.openai.com", "/v1/chat/completions", "">>
  /\ Url(r) # <<"https://api.openai.com", "/v1/completions", "">>

\* The first segment of the streamed text, which saveRequestToDb parses for
\* the id before it looks at the url, is no JSON.
FirstSegmentFails(r) ==
  /\ Streaming(Body(r))
  /\ ~Parses(FirstSegment(SplitLines(responseData[r])))

RequestFields(row) ==
  [by |-> row.by, url |-> row.url, method |-> row.method,
   request_body |-> row.request_body, userId |-> row.userId]

\* C35: the terminal UPDATE of a request writes as status the status of the
\* response that was returned to the caller of that request (the upstream's
\* on a miss, the stored one on a hit) in place of the provisional 200, and
\* changes none of the row's request fields (url, method, request body,
\* user id) nor any other row.
C35_StatusOfReturnedResponse ==
  [][\A r \in Reqs :
       (save[r] # "updated" /\ save'[r] = "updated") =>
         /\ out[r].kind = "response"
         /\ db'[uuid[r]].status = out[r].status
         /\ db'[uuid[r]].status = response[r].status
         /\ RequestFields(db'[uuid[r]]) = RequestFields(db[uuid[r]])
         /\ RequestFields(db'[uuid[r]]) = RequestFields(InitialRow(r))
         /\ \A i \in Ids : i # uuid[r] => db'[i] = db[i]]_vars

\* A request answered by the upstream with an error status has had its row
\* updated: the row has that status and its request fields are unchanged.
C35_Witness ==
  \E r \in Reqs :
    /\ lookup[r] = "miss" /\ save[r] = "updated"
    /\ out[r].status = 429 /\ db[uuid[r]].status = 429
    /\ RequestFields(db[uuid[r]]) = RequestFields(InitialRow(r))
====
